---------------------------- MODULE Spec2Model ----------------------------
(***************************************************************************)
(* The combinator parsing engine of parser/src/parser.rs.                  *)
(*                                                                         *)
(* A parser is an immutable expression tree; parse(stream) is recursive    *)
(* descent over it, and all state lives in the Stream cursor.  Every       *)
(* `impl Parser for X { fn parse }` is an operator XParse(self, st) that   *)
(* returns the result and the stream as the call leaves it.  The stream    *)
(* record also carries `trace`, the history of parse entries, closure      *)
(* calls and stream operations, so that "B is never run" and "f is not     *)
(* applied" are observable.                                                *)
(*                                                                         *)
(* Values: Option<T> is <<>> (None) or <<v>> (Some(v)); Vec<T> is a        *)
(* sequence; a pair is a 2-tuple; () is "unit".                            *)
(***************************************************************************)
EXTENDS Integers, Sequences, FiniteSets

\* ------------------------------------------------------------- bounds
\* longest token stream
MaxLen == 3
\* largest n of many_n(n)
MaxCount == 2
\* longest expected sequence of tokens([..])
MaxSeq == 2
\* the token alphabet (the tests of parser.rs use the integers 1, 2, 3)
Toks == {1, 2, 3}

\* ------------------------------------------------------------- values
None == <<>>
Some(x) == <<x>>
Unit == "unit"

\* enum ErrorExpect<T>
AnyExpect == <<"Any">>
EofExpect == <<"Eof">>
TokenExpect(x) == <<"Token", x>>
Unknown == <<"Unknown">>

\* ParserError::new
ParserErrorNew(pos, unexpected, expecting) ==
  [pos |-> pos, unexpected |-> unexpected, expecting |-> expecting]

\* ParserResult<O, I>; NoReturn is a call that never returns (a loop that
\* never exits), which every caller inherits.
Ok(v) == [tag |-> "Ok", val |-> <<v>>, err |-> <<>>]
Err(e) == [tag |-> "Err", val |-> <<>>, err |-> <<e>>]
NoReturn == [tag |-> "NoReturn", val |-> <<>>, err |-> <<>>]
IsOk(r) == r.tag = "Ok"
IsErr(r) == r.tag = "Err"

\* what a parse call hands back: its result and the stream it leaves
Ret(r, st) == [res |-> r, st |-> st]

\* ------------------------------------------------------------- Stream
\* history: one event per parse entry, closure call and stream operation,
\* with the cursor after it
Note(st, op) == [st EXCEPT !.trace = Append(@, [op |-> op, pos |-> st.pos])]

StreamNew(data) == [data |-> data, pos |-> 0, trace |-> <<>>]
Pos(st) == st.pos
Peak(st) == IF st.pos < Len(st.data) THEN Some(st.data[st.pos + 1]) ELSE None
StreamNext(st) == Note([st EXCEPT !.pos = @ + 1], "next")
SetPos(st, p) == Note([st EXCEPT !.pos = p], "set_pos")

\* ------------------------------------------------------------- closures
\* the closures handed to map, expect and then, by name
CallMapF(f, x) ==
  CASE f = "inc" -> x + 1
    [] f = "len" -> Len(x)
    [] f = "pair" -> <<x, x>>

CallPred(f, x) ==
  CASE f = "is1" -> x = 1
    [] f = "ge2" -> x >= 2

CallThenF(f, x) ==
  CASE f = "token" -> [kind |-> "Token", x |-> x]
    [] f = "tokens" -> [kind |-> "Tokens", xs |-> x]

RECURSIVE Parse(_, _)

\* ------------------------------------------------------------- primitives
\* mutant: the cursor advances whether or not a token was there
AnyOneParse_AdvancesAtEnd(st) ==
  LET val == Peak(st)
      s1 == StreamNext(Note(st, "peak"))
  IN  IF val = None
        THEN Ret(Err(ParserErrorNew(Pos(st), None, AnyExpect)), s1)
        ELSE Ret(Ok(val[1]), s1)

\* mutant: the exhausted stream reported as an Eof expectation
AnyOneParse_Eof(st) ==
  LET val == Peak(st)
      s1 == Note(st, "peak")
  IN  IF val = None
        THEN Ret(Err(ParserErrorNew(Pos(st), None, EofExpect)), s1)
        ELSE Ret(Ok(val[1]), StreamNext(s1))

AnyOneParse(st) ==
  LET val == Peak(st)
      s1 == Note(st, "peak")
  IN  IF val = None
        THEN Ret(Err(ParserErrorNew(Pos(st), None, AnyExpect)), s1)
        ELSE Ret(Ok(val[1]), StreamNext(s1))

ValParse(self, st) == Ret(Ok(self.x), st)

EofParse(st) ==
  LET x == Peak(st)
      s1 == Note(st, "peak")
  IN  IF x # None
        THEN Ret(Err(ParserErrorNew(Pos(st), Some(x[1]), EofExpect)), s1)
        ELSE Ret(Ok(Unit), s1)

\* mutant: the mismatching token is consumed
TokenParse_EatsMismatch(self, st) ==
  LET res == Peak(st)
      s1 == Note(st, "peak")
  IN  IF res = None
        THEN Ret(Err(ParserErrorNew(Pos(st), None, TokenExpect(self.x))), s1)
        ELSE IF res[1] = self.x
          THEN Ret(Ok(res[1]), StreamNext(s1))
          ELSE Ret(Err(ParserErrorNew(Pos(s1), Some(res[1]), TokenExpect(self.x))),
                   StreamNext(s1))

TokenParse(self, st) ==
  LET res == Peak(st)
      s1 == Note(st, "peak")
  IN  IF res = None
        THEN Ret(Err(ParserErrorNew(Pos(st), None, TokenExpect(self.x))), s1)
        ELSE IF res[1] = self.x
          THEN Ret(Ok(res[1]), StreamNext(s1))
          ELSE Ret(Err(ParserErrorNew(Pos(s1), Some(res[1]), TokenExpect(self.x))), s1)

\* the for loop of Tokens::parse from the i-th expected token on
RECURSIVE TokensFrom(_, _, _, _)
TokensFrom(self, st, i, res) ==
  IF i > Len(self.xs) THEN Ret(Ok(res), st)
  ELSE
    LET x == self.xs[i]
        y == Peak(st)
        s1 == Note(st, "peak")
    IN  IF y = None
          THEN Ret(Err(ParserErrorNew(Pos(st), None, TokenExpect(x))), s1)
          ELSE IF x = y[1]
            THEN TokensFrom(self, StreamNext(s1), i + 1, Append(res, y[1]))
            ELSE Ret(Err(ParserErrorNew(Pos(s1), Some(y[1]), TokenExpect(x))), s1)

\* mutant: the matched prefix is given back on a mismatch
TokensParse_Rewinds(self, st) ==
  LET r == TokensFrom(self, st, 1, <<>>)
  IN  IF IsErr(r.res) THEN Ret(r.res, SetPos(r.st, Pos(st))) ELSE r

TokensParse(self, st) == TokensFrom(self, st, 1, <<>>)

ExpectParse(self, st) ==
  LET x == Peak(st)
      s1 == Note(st, "peak")
  IN  IF x = None
        THEN Ret(Err(ParserErrorNew(Pos(st), None, Unknown)), s1)
        ELSE LET s2 == Note(s1, "call_f")
             IN  IF CallPred(self.f, x[1])
                   THEN Ret(Ok(x[1]), StreamNext(s2))
                   ELSE Ret(Err(ParserErrorNew(Pos(s2), Some(x[1]), Unknown)), s2)

FailParse(st) ==
  LET s1 == Note(st, "peak")
  IN  Ret(Err(ParserErrorNew(Pos(st), Peak(st), Unknown)), s1)

\* ------------------------------------------------------------- combinators
\* mutant: the cursor is restored to the start of the stream
AttemptParse_RestoresZero(self, st) ==
  LET r == Parse(self.a, st)
  IN  IF IsErr(r.res) THEN Ret(r.res, SetPos(r.st, 0)) ELSE r

\* mutant: the cursor is not restored
AttemptParse_NoRestore(self, st) == Parse(self.a, st)

AttemptParse(self, st) ==
  LET pos == Pos(st)
      r == Parse(self.a, st)
  IN  IF IsErr(r.res) THEN Ret(r.res, SetPos(r.st, pos)) ELSE r

\* mutant: the closure is never applied
MapParse_NoF(self, st) == Parse(self.a, st)

MapParse(self, st) ==
  LET r == Parse(self.a, st)
  IN  IF IsOk(r.res)
        THEN Ret(Ok(CallMapF(self.f, r.res.val[1])), Note(r.st, "call_f"))
        ELSE r

\* mutant: B is tried after every failure of A
OrParse_AlwaysB(self, st) ==
  LET r == Parse(self.a, st)
  IN  IF IsErr(r.res) THEN Parse(self.b, r.st) ELSE r

\* mutant: B is tried, but a failure of B is reported as A's
OrParse_KeepsFirstError(self, st) ==
  LET pos == Pos(st)
      r == Parse(self.a, st)
  IN  IF IsErr(r.res) /\ pos = Pos(r.st)
        THEN LET rb == Parse(self.b, r.st)
             IN  IF IsErr(rb.res) THEN Ret(r.res, rb.st) ELSE rb
        ELSE r

OrParse(self, st) ==
  LET pos == Pos(st)
      r == Parse(self.a, st)
  IN  IF IsErr(r.res)
        THEN IF pos = Pos(r.st) THEN Parse(self.b, r.st) ELSE r
        ELSE r

\* mutant: a failure of B gives back what A consumed
AndParse_Rewinds(self, st) ==
  LET ra == Parse(self.a, st)
  IN  IF ~IsOk(ra.res) THEN ra
      ELSE LET rb == Parse(self.b, ra.st)
           IN  IF IsErr(rb.res) THEN Ret(rb.res, SetPos(rb.st, Pos(st)))
               ELSE IF ~IsOk(rb.res) THEN rb
               ELSE Ret(Ok(<<ra.res.val[1], rb.res.val[1]>>), rb.st)

AndParse(self, st) ==
  LET ra == Parse(self.a, st)
  IN  IF ~IsOk(ra.res) THEN ra
      ELSE LET rb == Parse(self.b, ra.st)
           IN  IF ~IsOk(rb.res) THEN rb
               ELSE Ret(Ok(<<ra.res.val[1], rb.res.val[1]>>), rb.st)

WithParse(self, st) ==
  LET ra == Parse(self.a, st)
  IN  IF ~IsOk(ra.res) THEN ra ELSE Parse(self.b, ra.st)

SkipParse(self, st) ==
  LET ra == Parse(self.a, st)
  IN  IF ~IsOk(ra.res) THEN ra
      ELSE LET rb == Parse(self.b, ra.st)
           IN  IF ~IsOk(rb.res) THEN rb ELSE Ret(ra.res, rb.st)

\* mutant: every failure becomes None
OptionalParse_Swallows(self, st) ==
  LET r == Parse(self.a, st)
  IN  CASE IsErr(r.res) -> Ret(Ok(None), r.st)
        [] IsOk(r.res) -> Ret(Ok(Some(r.res.val[1])), r.st)
        [] OTHER -> r

OptionalParse(self, st) ==
  LET pos == Pos(st)
      r == Parse(self.a, st)
  IN  CASE IsErr(r.res) ->
             IF pos = Pos(r.st) THEN Ret(Ok(None), r.st) ELSE r
        [] IsOk(r.res) -> Ret(Ok(Some(r.res.val[1])), r.st)
        [] OTHER -> r

\* `for i in 0..` has no upper end: a loop still running after LoopFuel
\* iterations is one whose element succeeds without reaching a failure,
\* reported as NoReturn.  A loop with a maximum stops by itself.
LoopFuel == MaxLen + 2

\* mutant: the maximum is tested with > instead of >=
RECURSIVE LoopFrom_OneMore(_, _, _, _)
LoopFrom_OneMore(self, st, i, res) ==
  IF self.max # None /\ i > self.max[1] THEN Ret(Ok(res), st)
  ELSE IF self.max = None /\ i >= LoopFuel THEN Ret(NoReturn, st)
  ELSE
    LET pos == Pos(st)
        r == Parse(self.a, st)
    IN  CASE IsOk(r.res) ->
               LoopFrom_OneMore(self, r.st, i + 1, Append(res, r.res.val[1]))
          [] IsErr(r.res) ->
               IF self.min # None /\ Len(res) < self.min[1] THEN r
               ELSE IF Pos(r.st) # pos THEN r
               ELSE Ret(Ok(res), r.st)
          [] OTHER -> r

\* mutant: a failure after the minimum always ends the loop in success
RECURSIVE LoopFrom_Truncates(_, _, _, _)
LoopFrom_Truncates(self, st, i, res) ==
  IF self.max # None /\ i >= self.max[1] THEN Ret(Ok(res), st)
  ELSE IF self.max = None /\ i >= LoopFuel THEN Ret(NoReturn, st)
  ELSE
    LET pos == Pos(st)
        r == Parse(self.a, st)
    IN  CASE IsOk(r.res) ->
               LoopFrom_Truncates(self, r.st, i + 1, Append(res, r.res.val[1]))
          [] IsErr(r.res) ->
               IF self.min # None /\ Len(res) < self.min[1] THEN r
               ELSE Ret(Ok(res), r.st)
          [] OTHER -> r

\* mutant: the minimum is not tested
RECURSIVE LoopFrom_NoMin(_, _, _, _)
LoopFrom_NoMin(self, st, i, res) ==
  IF self.max # None /\ i >= self.max[1] THEN Ret(Ok(res), st)
  ELSE IF self.max = None /\ i >= LoopFuel THEN Ret(NoReturn, st)
  ELSE
    LET pos == Pos(st)
        r == Parse(self.a, st)
    IN  CASE IsOk(r.res) ->
               LoopFrom_NoMin(self, r.st, i + 1, Append(res, r.res.val[1]))
          [] IsErr(r.res) ->
               IF Pos(r.st) # pos THEN r ELSE Ret(Ok(res), r.st)
          [] OTHER -> r

\* the for loop of Loop::parse from iteration i on, res collected so far
RECURSIVE LoopFrom(_, _, _, _)
LoopFrom(self, st, i, res) ==
  IF self.max # None /\ i >= self.max[1] THEN Ret(Ok(res), st)
  ELSE IF self.max = None /\ i >= LoopFuel THEN Ret(NoReturn, st)
  ELSE
    LET pos == Pos(st)
        r == Parse(self.a, st)
    IN  CASE IsOk(r.res) -> LoopFrom(self, r.st, i + 1, Append(res, r.res.val[1]))
          [] IsErr(r.res) ->
               IF self.min # None /\ Len(res) < self.min[1] THEN r
               ELSE IF Pos(r.st) # pos THEN r
               ELSE Ret(Ok(res), r.st)
          [] OTHER -> r

LoopParse(self, st) == LoopFrom(self, st, 0, <<>>)

MsgParse(self, st) ==
  LET r == Parse(self.a, st)
  IN  IF IsErr(r.res)
        THEN Ret(Err([r.res.err[1] EXCEPT !.expecting = self.msg]), r.st)
        ELSE r

ThenParse(self, st) ==
  LET r == Parse(self.a, st)
  IN  IF IsOk(r.res)
        THEN Parse(CallThenF(self.f, r.res.val[1]), Note(r.st, "call_f"))
        ELSE r

EitherParse(self, st) == Parse(self.a, st)

BoxParse(self, st) == Parse(self.a, st)

\* the dynamic dispatch of Parser::parse; the entry is recorded in the trace
Parse(self, st) ==
  LET s == Note(st, self.kind)
  IN  CASE self.kind = "AnyOne" -> AnyOneParse(s)
        [] self.kind = "Eof" -> EofParse(s)
        [] self.kind = "Val" -> ValParse(self, s)
        [] self.kind = "Token" -> TokenParse(self, s)
        [] self.kind = "Tokens" -> TokensParse(self, s)
        [] self.kind = "Expect" -> ExpectParse(self, s)
        [] self.kind = "Fail" -> FailParse(s)
        [] self.kind = "Attempt" -> AttemptParse(self, s)
        [] self.kind = "Map" -> MapParse(self, s)
        [] self.kind = "Or" -> OrParse(self, s)
        [] self.kind = "And" -> AndParse(self, s)
        [] self.kind = "With" -> WithParse(self, s)
        [] self.kind = "Skip" -> SkipParse(self, s)
        [] self.kind = "Optional" -> OptionalParse(self, s)
        [] self.kind = "Loop" -> LoopParse(self, s)
        [] self.kind = "Msg" -> MsgParse(self, s)
        [] self.kind = "Then" -> ThenParse(self, s)
        [] self.kind = "Either" -> EitherParse(self, s)
        [] self.kind = "Box" -> BoxParse(self, s)

\* ------------------------------------------------------------- constructors
any_one == [kind |-> "AnyOne"]
eof == [kind |-> "Eof"]
val(x) == [kind |-> "Val", x |-> x]
token(x) == [kind |-> "Token", x |-> x]
tokens(xs) == [kind |-> "Tokens", xs |-> xs]
expect(f) == [kind |-> "Expect", f |-> f]
fail == [kind |-> "Fail"]
attempt(a) == [kind |-> "Attempt", a |-> a]
map(a, f) == [kind |-> "Map", f |-> f, a |-> a]
or(a, b) == [kind |-> "Or", a |-> a, b |-> b]
and(a, b) == [kind |-> "And", a |-> a, b |-> b]
with(a, b) == [kind |-> "With", a |-> a, b |-> b]
skip(a, b) == [kind |-> "Skip", a |-> a, b |-> b]
optional(a) == [kind |-> "Optional", a |-> a]
LoopNew(a, x, y) == [kind |-> "Loop", a |-> a, min |-> x, max |-> y]
many(a) == LoopNew(a, None, None)
many1(a) == LoopNew(a, Some(1), None)
many_n(a, n) == LoopNew(a, Some(n), Some(n))
msg(a, m) == [kind |-> "Msg", a |-> a, msg |-> m]
then(a, f) == [kind |-> "Then", a |-> a, f |-> f]
EitherRight(a) == [kind |-> "Either", side |-> "Right", a |-> a]
EitherLeft(a) == [kind |-> "Either", side |-> "Left", a |-> a]
boxed(a) == [kind |-> "Box", a |-> a]

\* ------------------------------------------------------------- grammars
\* The grammars and inputs a run draws from.  They are well typed the way
\* the Rust types force: both sides of `or` have the same Output, map's
\* closure takes the Output of the parser it wraps.
SeqsUpTo(n) == UNION {[1..k -> Toks] : k \in 0..n}
Inputs == SeqsUpTo(MaxLen)
Preds == {"is1", "ge2"}
Expects == {EofExpect, TokenExpect(1)}

IntLeaf ==
  {any_one, fail} \cup {token(t) : t \in Toks} \cup {val(t) : t \in {1, 2}}
    \cup {expect(f) : f \in Preds}
SeqLeaf == {tokens(xs) : xs \in SeqsUpTo(MaxSeq)}
UnitLeaf == {eof}

\* sub-parsers, by Output type: the leaves and one level of combinators
\* over some of them.  Output = T:
IntSub ==
  IntLeaf \cup {with(token(a), token(b)) : a \in {1, 2}, b \in {2, 3}}
    \cup {attempt(with(token(1), token(2))), map(any_one, "inc"),
          or(token(1), token(2)), msg(token(1), EofExpect),
          skip(any_one, token(3)), then(any_one, "token")}
\* Output = Vec<T>:
SeqPick ==
  {tokens(xs) : xs \in {<<>>, <<1>>, <<1, 2>>, <<1, 3>>, <<2, 1>>, <<1, 2, 3>>}}
SeqSub ==
  SeqPick
    \cup {attempt(tokens(<<1, 2>>)), many(token(1)), many1(token(1)),
          many(val(1)), many_n(any_one, MaxCount),
          many1(with(token(1), token(2)))}
\* Output = ():
UnitSub == UnitLeaf \cup {with(token(1), eof)}
\* Output = Vec<()> and Vec<Vec<T>>:
VecSub == {many(eof), many(tokens(<<1, 2>>))}
Sub == IntSub \cup SeqSub \cup UnitSub \cup VecSub
\* right-hand sides of the sequencing combinators
Second == {any_one, token(2), val(1), eof, tokens(<<1, 3>>)}

Unary(P) ==
  {attempt(P), optional(P), many(P), many1(P), boxed(P), EitherRight(P),
   EitherLeft(P), map(P, "pair")}
    \cup {many_n(P, n) : n \in 0..MaxCount}
    \cup {msg(P, m) : m \in Expects}

Parsers ==
  IntLeaf \cup SeqLeaf \cup UnitLeaf
    \cup UNION {Unary(P) : P \in Sub}
    \cup {map(P, "inc") : P \in IntSub}
    \cup {map(P, "len") : P \in SeqSub \cup VecSub}
    \cup {then(P, "token") : P \in IntSub}
    \cup {then(P, "tokens") : P \in SeqSub}
    \cup {or(A, B) : A \in IntSub, B \in IntSub}
    \cup {or(A, B) : A \in SeqSub, B \in SeqSub}
    \cup {or(A, B) : A \in UnitSub, B \in UnitSub}
    \cup {or(A, A) : A \in VecSub}
    \cup {or(attempt(A), B) : A \in IntSub, B \in IntLeaf}
    \cup {or(attempt(A), B) : A \in SeqSub, B \in SeqPick}
    \cup {and(A, B) : A \in Sub, B \in Second}
    \cup {with(A, B) : A \in IntSub \cup UnitSub, B \in Second}
    \cup {skip(A, B) : A \in IntSub \cup UnitSub, B \in Second}

\* ------------------------------------------------------------- state
\* parser: the grammar; st: the Stream; st0: the stream as the parse call
\* was made; res: what parse returned; pc: ready, done, or running for a
\* call that does not return.
VARIABLES parser, st, st0, res, pc
vars == <<parser, st, st0, res, pc>>

Init ==
  /\ parser \in Parsers
  /\ \E data \in Inputs : st = StreamNew(data)
  /\ st0 = st
  /\ res = NoReturn
  /\ pc = "ready"

\* the caller positions the cursor (Stream::set_pos) before parsing
Seek(p) ==
  /\ pc = "ready"
  /\ st.trace = <<>>
  /\ p \in 1..Len(st.data)
  /\ st' = SetPos(st, p)
  /\ st0' = st'
  /\ UNCHANGED <<parser, res, pc>>

\* parser.parse(&mut st): the call the owner of the stream makes
Call ==
  /\ pc = "ready"
  /\ LET r == Parse(parser, st)
     IN  /\ res' = r.res
         /\ st' = r.st
         /\ pc' = IF r.res = NoReturn THEN "running" ELSE "done"
  /\ st0' = st
  /\ UNCHANGED parser

\* one action per impl of Parser::parse, taken when it is the root's
RunAnyOne == parser.kind = "AnyOne" /\ Call
RunEof == parser.kind = "Eof" /\ Call
RunVal == parser.kind = "Val" /\ Call
RunToken == parser.kind = "Token" /\ Call
RunTokens == parser.kind = "Tokens" /\ Call
RunExpect == parser.kind = "Expect" /\ Call
RunFail == parser.kind = "Fail" /\ Call
RunAttempt == parser.kind = "Attempt" /\ Call
RunMap == parser.kind = "Map" /\ Call
RunOr == parser.kind = "Or" /\ Call
RunAnd == parser.kind = "And" /\ Call
RunWith == parser.kind = "With" /\ Call
RunSkip == parser.kind = "Skip" /\ Call
RunOptional == parser.kind = "Optional" /\ Call
RunLoop == parser.kind = "Loop" /\ Call
RunMsg == parser.kind = "Msg" /\ Call
RunThen == parser.kind = "Then" /\ Call
RunEither == parser.kind = "Either" /\ Call
RunBox == parser.kind = "Box" /\ Call

Next ==
  \/ \E p \in 1..MaxLen : Seek(p)
  \/ RunAnyOne
  \/ RunEof
  \/ RunVal
  \/ RunToken
  \/ RunTokens
  \/ RunExpect
  \/ RunFail
  \/ RunAttempt
  \/ RunMap
  \/ RunOr
  \/ RunAnd
  \/ RunWith
  \/ RunSkip
  \/ RunOptional
  \/ RunLoop
  \/ RunMsg
  \/ RunThen
  \/ RunEither
  \/ RunBox

Spec == Init /\ [][Next]_vars

\* ------------------------------------------------------------- properties
\* the parse call has been made (it returned, or it never will)
Called == pc # "ready"
\* the cursor position p the call started from
StartPos == st0.pos
\* the stream as the root's parse body receives it
Entered == Note(st0, parser.kind)
\* the root's first sub-parser run alone from the start position
RunA == Parse(parser.a, Entered)
ErrAt(pos, unexpected, expecting) == Err(ParserErrorNew(pos, unexpected, expecting))

\* C1: in A.or(B), if A fails with the cursor past the start position p,
\* the result is exactly A's error, B is never run (nothing is added to what
\* A's run did) and the cursor stays where A left it; tokens([1,2]).or(
\* tokens([1,3])) over [1,3] fails with position 1, unexpected 3, expecting
\* Token(2), cursor 1.
C1_OrCommitted ==
  (Called /\ parser.kind = "Or") =>
    /\ (IsErr(RunA.res) /\ Pos(RunA.st) > StartPos) =>
         /\ res = RunA.res
         /\ st.trace = RunA.st.trace
         /\ Pos(st) = Pos(RunA.st)
    /\ (parser = or(tokens(<<1, 2>>), tokens(<<1, 3>>))
          /\ st0.data = <<1, 3>> /\ StartPos = 0) =>
         /\ res = ErrAt(1, Some(3), TokenExpect(2))
         /\ Pos(st) = 1

C1_Witness ==
  /\ pc = "done"
  /\ parser = or(tokens(<<1, 2>>), tokens(<<1, 3>>))
  /\ st0.data = <<1, 3>> /\ StartPos = 0
  /\ res = ErrAt(1, Some(3), TokenExpect(2))
  /\ Pos(st) = 1

\* C2: in A.or(B), if A fails with the cursor still at the start position
\* p, the result and the final cursor are those of B run alone from p; if A
\* succeeds, the result is A's and B is not run.
C2_OrFallsBack ==
  (Called /\ parser.kind = "Or") =>
    /\ (IsErr(RunA.res) /\ Pos(RunA.st) = StartPos) =>
         LET rb == Parse(parser.b, st0)
         IN  res = rb.res /\ Pos(st) = Pos(rb.st)
    /\ IsOk(RunA.res) =>
         /\ res = RunA.res
         /\ st = RunA.st

C2_Witness ==
  /\ pc = "done"
  /\ parser = or(token(1), token(2))
  /\ st0.data = <<1, 2, 3>> /\ StartPos = 1
  /\ res = Ok(2)
  /\ Pos(st) = 2

\* C3: when attempt(P) fails the cursor is back at the start position p
\* however far P went, and the error is P's, unchanged (its position may be
\* past p); when attempt(P) succeeds, result and cursor are P's.
C3_AttemptRestores ==
  (Called /\ parser.kind = "Attempt") =>
    /\ IsErr(res) <=> IsErr(RunA.res)
    /\ IsErr(res) => (Pos(st) = StartPos /\ res = RunA.res)
    /\ IsOk(res) => (res = RunA.res /\ Pos(st) = Pos(RunA.st))

C3_Witness ==
  /\ pc = "done"
  /\ parser = attempt(tokens(<<1, 2>>))
  /\ st0.data = <<3, 1, 3>> /\ StartPos = 1
  /\ res = ErrAt(2, Some(3), TokenExpect(2))
  /\ Pos(st) = 1

\* C4: token(t) with next token t succeeds with t and the cursor at p+1;
\* with next token u # t it fails with expecting Token(t), unexpected u,
\* position p, cursor at p; on an exhausted stream it fails with expecting
\* Token(t), unexpected none, cursor at p.
C4_Token ==
  (Called /\ parser.kind = "Token") =>
    LET t == parser.x
        p == StartPos
    IN  IF p < Len(st0.data)
          THEN LET u == st0.data[p + 1]
               IN  IF u = t
                     THEN res = Ok(t) /\ Pos(st) = p + 1
                     ELSE res = ErrAt(p, Some(u), TokenExpect(t)) /\ Pos(st) = p
          ELSE /\ IsErr(res)
               /\ res.err[1].expecting = TokenExpect(t)
               /\ res.err[1].unexpected = None
               /\ Pos(st) = p

C4_Witness ==
  /\ pc = "done"
  /\ parser = token(2)
  /\ st0.data = <<2, 3>> /\ StartPos = 1
  /\ res = ErrAt(1, Some(3), TokenExpect(2))
  /\ Pos(st) = 1

\* the first k consecutive runs of P from s, stopping after a run that is
\* not a success: the sequence of what each run handed back
RECURSIVE RunsOf(_, _, _)
RunsOf(P, s, k) ==
  IF k = 0 THEN <<>>
  ELSE LET r == Parse(P, s)
       IN  IF IsOk(r.res) THEN <<r>> \o RunsOf(P, r.st, k - 1) ELSE <<r>>

IsManyN == parser.kind = "Loop" /\ parser.min # None /\ parser.max = parser.min
IsMany == parser.kind = "Loop" /\ parser.min = None /\ parser.max = None
IsMany1 == parser.kind = "Loop" /\ parser.min = Some(1) /\ parser.max = None

\* C5: P.many_n(k) succeeds iff P succeeds k times in a row from the start
\* position; it then returns those k outputs in order with the stream as
\* the k-th success left it, no further attempt of P made; if attempt
\* j <= k of P fails, many_n(k) fails with that attempt's error.
C5_ManyN ==
  (Called /\ IsManyN) =>
    LET k == parser.min[1]
        runs == RunsOf(parser.a, Entered, k)
        allOk == Len(runs) = k /\ \A j \in 1..k : IsOk(runs[j].res)
    IN  /\ IsOk(res) <=> allOk
        /\ allOk =>
             /\ res = Ok([j \in 1..k |-> runs[j].res.val[1]])
             /\ st = IF k = 0 THEN Entered ELSE runs[k].st
        /\ (runs # <<>> /\ IsErr(runs[Len(runs)].res)) =>
             res = runs[Len(runs)].res

C5_Witness ==
  /\ pc = "done"
  /\ parser = many_n(token(1), 2)
  /\ st0.data = <<1, 1, 1>> /\ StartPos = 0
  /\ res = Ok(<<1, 1>>)
  /\ Pos(st) = 2

\* C6: if P's first attempt fails without moving the cursor, P.many()
\* succeeds with the empty list and the cursor at p; P.many1() fails with
\* P's error whenever P's first attempt fails, and never succeeds with zero
\* repetitions.
C6_ManyMany1 ==
  /\ (Called /\ IsMany /\ IsErr(RunA.res) /\ Pos(RunA.st) = StartPos) =>
       (res = Ok(<<>>) /\ Pos(st) = StartPos)
  /\ (Called /\ IsMany1) =>
       /\ IsErr(RunA.res) => res = RunA.res
       /\ IsOk(res) => Len(res.val[1]) >= 1

C6_Witness ==
  /\ pc = "done"
  /\ st0.data = <<2, 3>> /\ StartPos = 1
  /\ parser = many1(token(2))
  /\ res = ErrAt(1, Some(3), TokenExpect(2))

\* C7: tokens([x1..xn]) succeeds iff the next n tokens are x1..xn, then
\* returning them with the cursor at p+n; otherwise, with i the first index
\* where the stream differs from xi or is exhausted, it fails with
\* expecting Token(xi), unexpected the token found there (none if
\* exhausted), position p+i-1, and the cursor is left at p+i-1.
C7_Tokens ==
  (Called /\ parser.kind = "Tokens") =>
    LET xs == parser.xs
        n == Len(xs)
        p == StartPos
        data == st0.data
        bad == {i \in 1..n : p + i > Len(data) \/ data[p + i] # xs[i]}
    IN  /\ IsOk(res) <=> bad = {}
        /\ bad = {} => (res = Ok(xs) /\ Pos(st) = p + n)
        /\ bad # {} =>
             LET i == CHOOSE m \in bad : \A o \in bad : m <= o
                 found == IF p + i <= Len(data) THEN Some(data[p + i]) ELSE None
             IN  /\ res = ErrAt(p + i - 1, found, TokenExpect(xs[i]))
                 /\ Pos(st) = p + i - 1

C7_Witness ==
  /\ pc = "done"
  /\ parser = tokens(<<1, 2>>)
  /\ st0.data = <<3, 1, 3>> /\ StartPos = 1
  /\ res = ErrAt(2, Some(3), TokenExpect(2))
  /\ Pos(st) = 2

\* C8 as the specification states it: any_one returns the current token and
\* advances by one; on an exhausted stream it fails with expecting Eof,
\* unexpected none, position = cursor, cursor unmoved.
C8_AnyOneEof ==
  (Called /\ parser.kind = "AnyOne") =>
    LET p == StartPos
    IN  IF p < Len(st0.data)
          THEN res = Ok(st0.data[p + 1]) /\ Pos(st) = p + 1
          ELSE res = ErrAt(p, None, EofExpect) /\ Pos(st) = p

\* C8, amended: any_one returns the current token and advances by one; on
\* an exhausted stream it fails with expecting Any, unexpected none,
\* position = cursor, cursor unmoved.
C8_AnyOneAny ==
  (Called /\ parser.kind = "AnyOne") =>
    LET p == StartPos
    IN  IF p < Len(st0.data)
          THEN res = Ok(st0.data[p + 1]) /\ Pos(st) = p + 1
          ELSE res = ErrAt(p, None, AnyExpect) /\ Pos(st) = p

C8_Witness ==
  /\ pc = "done"
  /\ parser = any_one
  /\ st0.data = <<1, 2>> /\ StartPos = 2
  /\ res = ErrAt(2, None, AnyExpect)
  /\ Pos(st) = 2

\* C9: P.map(f) succeeds iff P succeeds, with f of P's output and P's final
\* cursor; when P fails it returns P's error and P's final cursor and f is
\* not applied.  token(1).map(x -> x+1) gives 2 at cursor 1 on [1], and on
\* [2] fails with position 0, unexpected 2, expecting Token(1), cursor 0.
C9_Map ==
  (Called /\ parser.kind = "Map") =>
    /\ IsOk(res) <=> IsOk(RunA.res)
    /\ IsOk(RunA.res) =>
         /\ res = Ok(CallMapF(parser.f, RunA.res.val[1]))
         /\ Pos(st) = Pos(RunA.st)
    /\ IsErr(RunA.res) =>
         /\ res = RunA.res
         /\ st = RunA.st
    /\ (parser = map(token(1), "inc") /\ StartPos = 0) =>
         /\ st0.data = <<1>> => (res = Ok(2) /\ Pos(st) = 1)
         /\ st0.data = <<2>> =>
              (res = ErrAt(0, Some(2), TokenExpect(1)) /\ Pos(st) = 0)

C9_Witness ==
  /\ pc = "done"
  /\ parser = map(token(1), "inc")
  /\ st0.data = <<1>> /\ StartPos = 0
  /\ res = Ok(2)
  /\ Pos(st) = 1

\* C10: P.optional() has three outcomes: P succeeds with v: Some(v) and P's
\* final cursor; P fails with the cursor still at p: success with None and
\* the cursor at p; P fails with the cursor past p: P's error unchanged and
\* the cursor where P left it.
C10_Optional ==
  (Called /\ parser.kind = "Optional") =>
    /\ IsOk(RunA.res) =>
         (res = Ok(Some(RunA.res.val[1])) /\ Pos(st) = Pos(RunA.st))
    /\ (IsErr(RunA.res) /\ Pos(RunA.st) = StartPos) =>
         (res = Ok(None) /\ Pos(st) = StartPos)
    /\ (IsErr(RunA.res) /\ Pos(RunA.st) > StartPos) =>
         (res = RunA.res /\ Pos(st) = Pos(RunA.st))

C10_Witness ==
  /\ pc = "done"
  /\ parser = optional(tokens(<<1, 2>>))
  /\ st0.data = <<1, 3>> /\ StartPos = 0
  /\ res = ErrAt(1, Some(3), TokenExpect(2))
  /\ Pos(st) = 1

\* a grammar built only from the primitives and map, and, with, skip, or,
\* optional, many, many1, many_n, msg, then, either: no attempt in it
RECURSIVE AttemptFree(_)
AttemptFree(P) ==
  CASE P.kind \in {"AnyOne", "Eof", "Val", "Token", "Tokens", "Expect", "Fail"} -> TRUE
    [] P.kind \in {"Map", "Optional", "Loop", "Msg", "Then", "Either"} ->
         AttemptFree(P.a)
    [] P.kind \in {"Or", "And", "With", "Skip"} ->
         AttemptFree(P.a) /\ AttemptFree(P.b)
    [] OTHER -> FALSE

\* C11: for a grammar without attempt, whenever parse returns an error the
\* error's position is the cursor position at that moment: the cursor is
\* left where the mismatch was detected, never rewound.
C11_ErrorPosIsCursor ==
  (pc = "done" /\ AttemptFree(parser) /\ IsErr(res)) =>
    res.err[1].pos = Pos(st)

C11_Witness ==
  /\ pc = "done"
  /\ parser = and(with(token(1), token(2)), token(2))
  /\ st0.data = <<1, 2, 3>> /\ StartPos = 0
  /\ res = ErrAt(2, Some(3), TokenExpect(2))
  /\ Pos(st) = 2

\* C12: in many / many1 / many_n over P, once the minimum count of outputs
\* is collected: an attempt of P that fails with the cursor past where that
\* attempt started fails the whole repetition with that error, the cursor
\* not rewound; an attempt that fails with the cursor unmoved ends the
\* repetition in success with the outputs collected so far, in order, the
\* cursor at the start of the failed attempt.
C12_LoopAfterMin ==
  (Called /\ parser.kind = "Loop") =>
    LET min == IF parser.min = None THEN 0 ELSE parser.min[1]
        limit == IF parser.max = None THEN LoopFuel ELSE parser.max[1]
        runs == RunsOf(parser.a, Entered, limit)
        n == Len(runs)
    IN  (n > 0 /\ IsErr(runs[n].res) /\ n - 1 >= min) =>
          LET from == IF n = 1 THEN StartPos ELSE Pos(runs[n - 1].st)
              outs == [j \in 1..(n - 1) |-> runs[j].res.val[1]]
          IN  /\ Pos(runs[n].st) > from =>
                   (res = runs[n].res /\ Pos(st) = Pos(runs[n].st))
              /\ Pos(runs[n].st) = from =>
                   (res = Ok(outs) /\ Pos(st) = from)

C12_Witness ==
  /\ pc = "done"
  /\ parser = many(tokens(<<1, 2>>))
  /\ st0.data = <<1, 2, 1>> /\ StartPos = 0
  /\ res = ErrAt(3, None, TokenExpect(2))
  /\ Pos(st) = 3

Primitives ==
  {"AnyOne", "Eof", "Val", "Token", "Tokens", "Expect", "Fail"}

\* C13: for a finite stream and P a primitive (any_one, eof, val, token,
\* tokens, expect, fail), the calls P.many() and P.many1() terminate: the
\* loop stops and parse returns a result.
C13_ManyTerminates ==
  (Called /\ (IsMany \/ IsMany1) /\ parser.a.kind \in Primitives) =>
    (pc = "done" /\ res # NoReturn)

\* an attempt of P in an unbounded loop that succeeds and leaves the cursor
\* where it was: the next iteration starts from the same stream position,
\* P is a function of the data and the position, so it succeeds again, and
\* the loop has no other exit
StuckIteration ==
  /\ parser.kind = "Loop" /\ parser.max = None
  /\ \E k \in 1..LoopFuel :
       LET runs == RunsOf(parser.a, Entered, k)
           from == IF k = 1 THEN StartPos ELSE Pos(runs[k - 1].st)
       IN  Len(runs) = k /\ IsOk(runs[k].res) /\ Pos(runs[k].st) = from

\* a many / many1 call does not return exactly when some attempt of a
\* returning element succeeds without moving the cursor
NoReturnIsStuckIteration ==
  (Called /\ (IsMany \/ IsMany1) /\ parser.a.kind \in Primitives) =>
    (pc = "running" <=> StuckIteration)

\* C14: in A.attempt().or(B), whenever A fails, however much it consumed,
\* B is run from the start position p and the call returns B's result and
\* final cursor, not A's error; tokens([1,2]).attempt().or(tokens([1,3]))
\* over [1,3] succeeds with [1,3] and cursor 2.
C14_AttemptOr ==
  (Called /\ parser.kind = "Or" /\ parser.a.kind = "Attempt") =>
    LET ra == Parse(parser.a.a, st0)
        rb == Parse(parser.b, st0)
        enterB == [op |-> parser.b.kind, pos |-> StartPos]
    IN  /\ IsErr(ra.res) =>
             /\ res = rb.res
             /\ Pos(st) = Pos(rb.st)
             /\ \E i \in 1..Len(st.trace) :
                  /\ st.trace[i] = [op |-> "set_pos", pos |-> StartPos]
                  /\ i < Len(st.trace) /\ st.trace[i + 1] = enterB
        /\ (parser = or(attempt(tokens(<<1, 2>>)), tokens(<<1, 3>>))
              /\ st0.data = <<1, 3>> /\ StartPos = 0) =>
             (res = Ok(<<1, 3>>) /\ Pos(st) = 2)

C14_Witness ==
  /\ pc = "done"
  /\ parser = or(attempt(tokens(<<1, 2>>)), tokens(<<1, 3>>))
  /\ st0.data = <<2, 1, 3>> /\ StartPos = 1
  /\ res = Ok(<<1, 3>>)
  /\ Pos(st) = 3

\* the events of the parse call, and the cursor before the i-th of them
CallEvents == (Len(st0.trace) + 1)..Len(st.trace)
PosBefore(i) == IF i = Len(st0.trace) + 1 THEN StartPos ELSE st.trace[i - 1].pos

\* C15: for a stream of n tokens and a parse started at p <= n: at every
\* step of the parse the cursor is in 0..n; the cursor advances only by
\* one, by next, right after a peek at that position that returned a token;
\* the only step that lowers the cursor is attempt restoring the position
\* it captured on entry; so when parse returns, p <= cursor <= n.
C15_Cursor ==
  Called =>
    LET T == st.trace
        n == Len(st0.data)
    IN  /\ \A i \in CallEvents :
             /\ T[i].pos \in 0..n
             /\ T[i].pos > PosBefore(i) =>
                  /\ T[i].op = "next"
                  /\ T[i].pos = PosBefore(i) + 1
                  /\ \E j \in CallEvents :
                       /\ j < i
                       /\ T[j] = [op |-> "peak", pos |-> PosBefore(i)]
                       /\ PosBefore(i) < n
                       /\ \A k \in (j + 1)..(i - 1) : T[k].op = "call_f"
             /\ T[i].op = "next" => T[i].pos > PosBefore(i)
             /\ T[i].pos < PosBefore(i) =>
                  /\ T[i].op = "set_pos"
                  /\ \E j \in CallEvents :
                       j < i /\ T[j] = [op |-> "Attempt", pos |-> T[i].pos]
        /\ pc = "done" => (StartPos <= Pos(st) /\ Pos(st) <= n)

C15_Witness ==
  /\ pc = "done"
  /\ parser = many(attempt(with(token(1), token(2))))
  /\ st0.data = <<1, 2, 1>> /\ StartPos = 0
  /\ res = Ok(<<2>>)
  /\ Pos(st) = 2
  /\ \E i \in CallEvents : st.trace[i] = [op |-> "set_pos", pos |-> 2]
                             /\ PosBefore(i) = 3

=============================================================================
